---- MODULE Spec2Model ----
(***************************************************************************)
(* Model of the JWT lifecycle of FLASK_PPC (src/app.py): login, refresh,   *)
(* logout, protected-route admission and the runtime policy change.        *)
(*                                                                         *)
(* Time is counted in ticks; TicksPerSec ticks make one second.  The wall  *)
(* clock (datetime.now().timestamp()) is fractional, i.e. any tick; the    *)
(* iat/exp claims of a token are whole seconds (PyJWT encodes a datetime   *)
(* claim with timegm(utctimetuple()), which drops the fraction).           *)
(***************************************************************************)
EXTENDS Integers, FiniteSets, Sequences, TLC

\* ---- bounds of the model ------------------------------------------------
TicksPerSec == 2
MaxTime == 3
MaxRequests == 3

\* integer lifetimes (seconds) a policy-change request may carry
LifetimeInputs == {-1, 0, 1}

VARIABLES
    now,                        \* the wall clock, in ticks
    TOKEN_ISSUED_AFTER,         \* app.config["TOKEN_ISSUED_AFTER"], in ticks
    JWT_ACCESS_TOKEN_EXPIRES,   \* app.config[...], in seconds
    JWT_REFRESH_TOKEN_EXPIRES,  \* app.config[...], in seconds
    token_blacklist,            \* set of revoked jti
    issued,                     \* tokens that reached a client
    jtiCount,                   \* number of token identifiers generated so far
    requests,                   \* number of requests handled so far
    last,                       \* the latest request and its response
    pyjwt_exp_inclusive,        \* the installed PyJWT treats exp == now as expired (>= 2.6) or not
    policy_changed_at,          \* history: instant of the latest completed policy change, -1 if none
    admin_pc,                   \* per request thread: position inside set_token_expiry
    admin_req,                  \* per request thread: the policy-change request being served
    admin_clock,                \* per request thread: the value datetime.now() returned
    w2_token_blacklist,         \* token_blacklist of a second worker process
    w2_TOKEN_ISSUED_AFTER,      \* app.config["TOKEN_ISSUED_AFTER"] of a second worker process
    db_users,                   \* the users collection: email -> document
    db_stores,                  \* the stores collection: name -> document
    process_started_at,         \* history: instant at which the running process called create_app
    revoked_before_restart,     \* history: identifiers revoked in processes that have ended
    mongo_pc,                   \* position of the wait_for_mongo call
    mongo_retries,              \* its `retries` argument
    mongo_outcomes              \* history: how each connection attempt of the call ended

vars == <<now, TOKEN_ISSUED_AFTER, JWT_ACCESS_TOKEN_EXPIRES, JWT_REFRESH_TOKEN_EXPIRES,
          token_blacklist, issued, jtiCount, requests, last, pyjwt_exp_inclusive, policy_changed_at,
          admin_pc, admin_req, admin_clock, w2_token_blacklist, w2_TOKEN_ISSUED_AFTER,
          db_users, db_stores, process_started_at, revoked_before_restart,
          mongo_pc, mongo_retries, mongo_outcomes>>

\* the request threads of one process that may serve policy changes at once
Threads == {"t1", "t2"}

valid_user == "AdminHS"

\* ---- requests -----------------------------------------------------------
\* A presented credential that is not a minted token: nothing at all, or a
\* string that is not a well-formed, correctly signed JWT.
NoToken == [jti |-> 0, sub |-> "", type |-> "none", iat |-> 0, hasExp |-> FALSE, exp |-> 0, mintedAt |-> 0]
Garbage == [jti |-> 0, sub |-> "", type |-> "garbage", iat |-> 0, hasExp |-> FALSE, exp |-> 0, mintedAt |-> 0]

Presentable == issued \cup {NoToken, Garbage}

LoginBodies ==
    {[present |-> FALSE, username |-> "none", password |-> "none"]} \cup
    [present : {TRUE}, username : {valid_user, "mallory", "none"}, password : {"right", "wrong", "none"}]

\* a JSON value of a lifetime field: absent (None), an integer, or not an integer
NoneVal == [k |-> "none", v |-> 0]
BadVal == [k |-> "bad", v |-> 0]
IntVal(n) == [k |-> "int", v |-> n]
LifetimeVals == {NoneVal, BadVal} \cup {IntVal(n) : n \in LifetimeInputs}

ExpiryBodies ==
    {[present |-> FALSE, access_seconds |-> NoneVal, refresh_seconds |-> NoneVal]} \cup
    [present : {TRUE}, access_seconds : LifetimeVals, refresh_seconds : LifetimeVals]

\* the HTTP Basic credential a policy-change request may carry
AdminCreds == {"valid", "invalid", "missing"}

\* the user emails and store names of the model, already normalised to upper case
Emails == {"A@X.CH", "B@X.CH"}
StoreNames == {"S", "T"}

\* the collection holds no document under that key
NoDoc == [absent |-> TRUE]

\* no policy-change request is being served
NoRequest == [present |-> FALSE, access_seconds |-> NoneVal, refresh_seconds |-> NoneVal]

Resp(s, m) == [status |-> s, msg |-> m]

Req(op, r, p, cred, a, rf) ==
    [op |-> op, status |-> r.status, msg |-> r.msg, jti |-> p.jti, type |-> p.type,
     cred |-> cred, access |-> a, refresh |-> rf]

\* ---- token codec (flask_jwt_extended / PyJWT as called by app.py) -------
\* PyJWT writes a datetime claim as whole seconds.
Timegm(t) == (t \div TicksPerSec) * TicksPerSec

\* create_access_token / create_refresh_token: iat = now, exp = now + lifetime,
\* both truncated to seconds; a lifetime of timedelta(0) is falsy and the
\* token gets no exp claim at all.
Mint(j, sub, type, life) ==
    [jti |-> j, sub |-> sub, type |-> type, iat |-> Timegm(now),
     hasExp |-> (life # 0), exp |-> Timegm(now) + life * TicksPerSec, mintedAt |-> now]

\* PyJWT's exp validation at decode time.  The repository pins no version:
\* from 2.6 on PyJWT raises ExpiredSignatureError when exp <= now (fractional
\* clock); earlier 2.x releases raise it when exp < now, with now read in
\* whole seconds.
JwtExpired(t) ==
    t.hasExp /\ (IF pyjwt_exp_inclusive THEN t.exp <= now ELSE t.exp < Timegm(now))

\* the blocklist loader without its cutoff comparison
check_if_token_revoked_NoCutoff(t) ==
    IF t.jti \in token_blacklist THEN TRUE
    ELSE IF t.hasExp /\ t.exp < now THEN TRUE
    ELSE FALSE

\* @jwt.token_in_blocklist_loader
check_if_token_revoked(t) ==
    IF t.jti \in token_blacklist THEN TRUE
    ELSE IF t.hasExp /\ t.exp < now THEN TRUE
    ELSE IF t.iat < TOKEN_ISSUED_AFTER THEN TRUE
    ELSE FALSE

\* a guard that verifies signature, expiry and blocklist but not the token type
jwt_required_NoTypeCheck(p) ==
    IF p.type = "none" THEN Resp(401, "Missing token")
    ELSE IF p.type = "garbage" THEN Resp(422, "Invalid token")
    ELSE IF JwtExpired(p) THEN Resp(401, "Token expired")
    ELSE IF check_if_token_revoked(p) THEN Resp(401, "Token revoked")
    ELSE Resp(200, "admitted")

\* @jwt_required(): decode (signature, exp), token type, blocklist loader; each
\* failure answered by the loader app.py registers for it.  Status 200 stands
\* for "admitted, the view function runs".
jwt_required(p) ==
    IF p.type = "none" THEN Resp(401, "Missing token")
    ELSE IF p.type = "garbage" THEN Resp(422, "Invalid token")
    ELSE IF JwtExpired(p) THEN Resp(401, "Token expired")
    ELSE IF p.type # "access" THEN Resp(422, "Invalid token")
    ELSE IF check_if_token_revoked(p) THEN Resp(401, "Token revoked")
    ELSE Resp(200, "admitted")

Admitted(p) == jwt_required(p).status = 200

\* ---- state --------------------------------------------------------------
InitProcess ==
    /\ now \in 0 .. (TicksPerSec - 1)
    /\ TOKEN_ISSUED_AFTER = now
    \* env_data lifetimes: a short access lifetime, a longer refresh lifetime
    /\ JWT_ACCESS_TOKEN_EXPIRES = 1
    /\ JWT_REFRESH_TOKEN_EXPIRES = 2
    /\ token_blacklist = {}
    /\ issued = {}
    /\ jtiCount = 0
    /\ requests = 0
    /\ last = Req("start", Resp(0, ""), NoToken, "missing", 0, 0)
    /\ pyjwt_exp_inclusive \in BOOLEAN
    /\ policy_changed_at = -1
    /\ admin_pc = [th \in Threads |-> "idle"]
    /\ admin_req = [th \in Threads |-> NoRequest]
    /\ admin_clock = [th \in Threads |-> 0]
    \* a second worker imports wsgi:app too and builds its own application
    /\ w2_token_blacklist = {}
    /\ w2_TOKEN_ISSUED_AFTER = now
    /\ process_started_at = now
    /\ revoked_before_restart = {}
    /\ mongo_pc = "idle"
    /\ mongo_retries = 0
    /\ mongo_outcomes = <<>>

\* a process started on an empty database
Init ==
    /\ InitProcess
    /\ db_users = [e \in Emails |-> NoDoc]
    /\ db_stores = [n \in StoreNames |-> NoDoc]

\* the clock advances
Tick ==
    /\ now < MaxTime
    /\ now' = now + 1
    /\ UNCHANGED <<TOKEN_ISSUED_AFTER, JWT_ACCESS_TOKEN_EXPIRES, JWT_REFRESH_TOKEN_EXPIRES,
                   token_blacklist, issued, jtiCount, requests, last, pyjwt_exp_inclusive, policy_changed_at>>

\* a request is taken up while the budget of the model lasts
handled ==
    /\ requests < MaxRequests
    /\ requests' = requests + 1

policy == <<TOKEN_ISSUED_AFTER, JWT_ACCESS_TOKEN_EXPIRES, JWT_REFRESH_TOKEN_EXPIRES>>

\* an admission that also revokes the token it admits
protected_Revoking(p) ==
    LET r == jwt_required(p) IN
    /\ handled
    /\ token_blacklist' = (IF r.status = 200 THEN token_blacklist \cup {p.jti} ELSE token_blacklist)
    /\ last' = Req("protected", IF r.status = 200 THEN Resp(200, "Hello") ELSE r, p, "missing", 0, 0)
    /\ UNCHANGED <<now, policy, issued, jtiCount, pyjwt_exp_inclusive, policy_changed_at>>

\* GET /protected
protected(p) ==
    LET r == jwt_required(p) IN
    /\ handled
    /\ last' = Req("protected", IF r.status = 200 THEN Resp(200, "Hello") ELSE r, p, "missing", 0, 0)
    /\ UNCHANGED <<now, policy, token_blacklist, issued, jtiCount, pyjwt_exp_inclusive, policy_changed_at>>

\* a logout that answers 200 but forgets to store the identifier
logout_NoRevoke(p) ==
    LET r == jwt_required(p) IN
    /\ handled
    /\ token_blacklist' = token_blacklist
    /\ last' = Req("logout", IF r.status = 200 THEN Resp(200, "Logged out successfully") ELSE r,
                   p, "missing", 0, 0)
    /\ UNCHANGED <<now, policy, issued, jtiCount, pyjwt_exp_inclusive, policy_changed_at>>

\* POST /logout
logout(p) ==
    LET r == jwt_required(p) IN
    /\ handled
    /\ IF r.status = 200
          THEN /\ token_blacklist' = token_blacklist \cup {p.jti}
               /\ last' = Req("logout", Resp(200, "Logged out successfully"), p, "missing", 0, 0)
          ELSE /\ token_blacklist' = token_blacklist
               /\ last' = Req("logout", r, p, "missing", 0, 0)
    /\ UNCHANGED <<now, policy, issued, jtiCount, pyjwt_exp_inclusive, policy_changed_at>>

\* a login whose answer tells a wrong username from a wrong password
login_LeakyMessage(body) ==
    LET access_token == Mint(jtiCount + 1, body.username, "access", JWT_ACCESS_TOKEN_EXPIRES)
        refresh_token == Mint(jtiCount + 2, body.username, "refresh", JWT_REFRESH_TOKEN_EXPIRES)
        reject(r) == /\ last' = Req("login", r, NoToken, "missing", 0, 0)
                     /\ UNCHANGED <<issued, jtiCount>>
    IN
    /\ handled
    /\ IF ~body.present THEN reject(Resp(500, "Internal Server Error"))
       ELSE IF body.username # valid_user THEN reject(Resp(401, "Invalid username"))
       ELSE IF body.password = "none" THEN reject(Resp(500, "Internal Server Error"))
       ELSE IF body.password # "right" THEN reject(Resp(401, "Invalid credentials"))
       ELSE IF JwtExpired(access_token)
            THEN /\ last' = Req("login", Resp(401, "Token expired"), NoToken, "missing", 0, 0)
                 /\ jtiCount' = jtiCount + 2
                 /\ issued' = issued
       ELSE /\ issued' = issued \cup {access_token, refresh_token}
            /\ jtiCount' = jtiCount + 2
            /\ last' = Req("login", Resp(200, "tokens"), NoToken, "missing",
                           access_token.jti, refresh_token.jti)
    /\ UNCHANGED <<now, policy, token_blacklist, pyjwt_exp_inclusive, policy_changed_at>>

\* POST /login
login(body) ==
    LET access_token == Mint(jtiCount + 1, body.username, "access", JWT_ACCESS_TOKEN_EXPIRES)
        refresh_token == Mint(jtiCount + 2, body.username, "refresh", JWT_REFRESH_TOKEN_EXPIRES)
        reject(r) == /\ last' = Req("login", r, NoToken, "missing", 0, 0)
                     /\ UNCHANGED <<issued, jtiCount>>
    IN
    /\ handled
    /\ IF ~body.present THEN reject(Resp(500, "Internal Server Error"))
       ELSE IF body.username # valid_user THEN reject(Resp(401, "Invalid credentials"))
       ELSE IF body.password = "none" THEN reject(Resp(500, "Internal Server Error"))
       ELSE IF body.password # "right" THEN reject(Resp(401, "Invalid credentials"))
       ELSE IF JwtExpired(access_token)
            \* decode_token(access_token) raises ExpiredSignatureError: the
            \* tokens were generated but the response carries none
            THEN /\ last' = Req("login", Resp(401, "Token expired"), NoToken, "missing", 0, 0)
                 /\ jtiCount' = jtiCount + 2
                 /\ issued' = issued
       ELSE /\ issued' = issued \cup {access_token, refresh_token}
            /\ jtiCount' = jtiCount + 2
            /\ last' = Req("login", Resp(200, "tokens"), NoToken, "missing",
                           access_token.jti, refresh_token.jti)
    /\ UNCHANGED <<now, policy, token_blacklist, pyjwt_exp_inclusive, policy_changed_at>>

\* a /refresh that answers a wrong-kind token like any invalid token
refresh_response_GenericWrongType(present, p) ==
    IF ~present THEN Resp(500, "Internal Server Error")
    ELSE IF p.type = "none" THEN Resp(401, "Missing token in JSON body")
    ELSE IF p.type = "garbage" THEN Resp(422, "Invalid token")
    ELSE IF JwtExpired(p) THEN Resp(401, "Token expired")
    ELSE IF p.type # "refresh" THEN Resp(422, "Invalid token")
    ELSE IF p.jti \in token_blacklist THEN Resp(401, "Token revoked")
    ELSE Resp(200, "token")

\* the answer of POST /refresh; `present` is whether the request has a JSON
\* body, p the value of its "token" field
refresh_response(present, p) ==
    IF ~present THEN Resp(500, "Internal Server Error")
    ELSE IF p.type = "none" THEN Resp(401, "Missing token in JSON body")
    ELSE IF p.type = "garbage" THEN Resp(422, "Invalid token")
    ELSE IF JwtExpired(p) THEN Resp(401, "Token expired")
    ELSE IF p.type # "refresh" THEN Resp(422, "Token is not a refresh token")
    ELSE IF p.jti \in token_blacklist THEN Resp(401, "Token revoked")
    ELSE Resp(200, "token")

\* a /refresh that rotates: it revokes the refresh token it was given
refresh_Rotating(present, p) ==
    LET new_access_token == Mint(jtiCount + 1, p.sub, "access", JWT_ACCESS_TOKEN_EXPIRES)
        r == refresh_response(present, p)
    IN
    /\ handled
    /\ IF r.status # 200
          THEN /\ last' = Req("refresh", r, p, "missing", 0, 0)
               /\ UNCHANGED <<issued, jtiCount, token_blacklist>>
       ELSE /\ issued' = issued \cup {new_access_token}
            /\ jtiCount' = jtiCount + 1
            /\ token_blacklist' = token_blacklist \cup {p.jti}
            /\ last' = Req("refresh", Resp(200, "token"), p, "missing", new_access_token.jti, 0)
    /\ UNCHANGED <<now, policy, pyjwt_exp_inclusive, policy_changed_at>>

\* POST /refresh
refresh(present, p) ==
    LET new_access_token == Mint(jtiCount + 1, p.sub, "access", JWT_ACCESS_TOKEN_EXPIRES)
        r == refresh_response(present, p)
    IN
    /\ handled
    /\ IF r.status # 200
          THEN /\ last' = Req("refresh", r, p, "missing", 0, 0)
               /\ UNCHANGED <<issued, jtiCount>>
       ELSE /\ issued' = issued \cup {new_access_token}
            /\ jtiCount' = jtiCount + 1
            /\ last' = Req("refresh", Resp(200, "token"), p, "missing", new_access_token.jti, 0)
    /\ UNCHANGED <<now, policy, token_blacklist, pyjwt_exp_inclusive, policy_changed_at>>

\* a policy change that stores 0 for a lifetime the request omits
expiry_after_ClearsOmitted(body) ==
    LET a == body.access_seconds
        r == body.refresh_seconds
    IN IF ~body.present \/ a.k = "bad" \/ r.k = "bad"
          THEN [status |-> 500, access |-> JWT_ACCESS_TOKEN_EXPIRES, refresh |-> JWT_REFRESH_TOKEN_EXPIRES]
       ELSE [status |-> 200,
             access |-> IF a.k = "int" THEN a.v ELSE 0,
             refresh |-> IF r.k = "int" THEN r.v ELSE 0]

\* the status set_token_expiry answers a body with, and the two lifetimes it
\* leaves in app.config
expiry_after(body) ==
    LET a == body.access_seconds
        r == body.refresh_seconds
        access == IF a.k = "int" THEN a.v ELSE JWT_ACCESS_TOKEN_EXPIRES
    IN IF ~body.present \/ a.k = "bad"
          THEN [status |-> 500, access |-> JWT_ACCESS_TOKEN_EXPIRES, refresh |-> JWT_REFRESH_TOKEN_EXPIRES]
       ELSE IF r.k = "bad"
          \* int(refresh_seconds) raises after the access lifetime was stored
          THEN [status |-> 500, access |-> access, refresh |-> JWT_REFRESH_TOKEN_EXPIRES]
       ELSE [status |-> 200, access |-> access,
             refresh |-> IF r.k = "int" THEN r.v ELSE JWT_REFRESH_TOKEN_EXPIRES]

\* POST /admin/set_token_expiry as create_app registers it: the view has no
\* decorator, so the credential the request carries is never looked at
set_token_expiry(cred, body) ==
    LET e == expiry_after(body)
        answer(resp) == last' = Req("set_token_expiry", resp, NoToken, cred, 0, 0)
    IN
    /\ handled
    /\ JWT_ACCESS_TOKEN_EXPIRES' = e.access
    /\ JWT_REFRESH_TOKEN_EXPIRES' = e.refresh
    /\ IF e.status # 200
          THEN /\ answer(Resp(500, "Internal Server Error"))
               /\ UNCHANGED <<TOKEN_ISSUED_AFTER, policy_changed_at>>
       ELSE /\ TOKEN_ISSUED_AFTER' = now
            /\ policy_changed_at' = now
            /\ answer(Resp(200, "Token expiry updated and old tokens invalidated"))
    /\ UNCHANGED <<now, token_blacklist, issued, jtiCount, pyjwt_exp_inclusive>>

\* the state of concurrent request threads and of the second worker
threads == <<admin_pc, admin_req, admin_clock>>
worker2 == <<w2_token_blacklist, w2_TOKEN_ISSUED_AFTER>>

database == <<db_users, db_stores>>
restarts == <<process_started_at, revoked_before_restart>>
mongo == <<mongo_pc, mongo_retries, mongo_outcomes>>

\* what the authentication routes of one worker never touch
others == <<threads, worker2, database, restarts, mongo>>

\* One process, one request at a time.
Next ==
    \/ Tick /\ UNCHANGED others
    \/ \E p \in Presentable : protected(p) /\ UNCHANGED others
    \/ \E p \in Presentable : logout(p) /\ UNCHANGED others
    \/ \E body \in LoginBodies : login(body) /\ UNCHANGED others
    \/ \E present \in BOOLEAN, p \in Presentable : refresh(present, p) /\ UNCHANGED others
    \/ \E cred \in AdminCreds, body \in ExpiryBodies :
          set_token_expiry(cred, body) /\ UNCHANGED others

Spec == Init /\ [][Next]_vars

\* ---- set_token_expiry statement by statement (threaded server) ----------
\* app.run() serves each request in its own thread and set_token_expiry holds
\* no lock, so its statements interleave with other requests.
core_unchanged_by_admin == <<now, token_blacklist, issued, jtiCount, pyjwt_exp_inclusive>>

\* lines 230-236: read the body, store the access lifetime; the request's
\* credential is never read, so these steps carry none
set_token_expiry_access(th, body) ==
    /\ admin_pc[th] = "idle"
    /\ handled
    /\ IF ~body.present \/ body.access_seconds.k = "bad"
          THEN /\ last' = Req("set_token_expiry", Resp(500, "Internal Server Error"), NoToken, "missing", 0, 0)
               /\ UNCHANGED <<JWT_ACCESS_TOKEN_EXPIRES, admin_pc, admin_req>>
          ELSE /\ JWT_ACCESS_TOKEN_EXPIRES' =
                      (IF body.access_seconds.k = "int" THEN body.access_seconds.v
                       ELSE JWT_ACCESS_TOKEN_EXPIRES)
               /\ admin_pc' = [admin_pc EXCEPT ![th] = "refresh"]
               /\ admin_req' = [admin_req EXCEPT ![th] = body]
               /\ last' = last
    /\ UNCHANGED <<core_unchanged_by_admin, TOKEN_ISSUED_AFTER, JWT_REFRESH_TOKEN_EXPIRES,
                   policy_changed_at, admin_clock, worker2>>

\* lines 238-240: store the refresh lifetime
set_token_expiry_refresh(th) ==
    LET r == admin_req[th].refresh_seconds IN
    /\ admin_pc[th] = "refresh"
    /\ IF r.k = "bad"
          THEN /\ last' = Req("set_token_expiry", Resp(500, "Internal Server Error"), NoToken, "missing", 0, 0)
               /\ admin_pc' = [admin_pc EXCEPT ![th] = "idle"]
               /\ admin_req' = [admin_req EXCEPT ![th] = NoRequest]
               /\ UNCHANGED JWT_REFRESH_TOKEN_EXPIRES
          ELSE /\ JWT_REFRESH_TOKEN_EXPIRES' = (IF r.k = "int" THEN r.v ELSE JWT_REFRESH_TOKEN_EXPIRES)
               /\ admin_pc' = [admin_pc EXCEPT ![th] = "clock"]
               /\ UNCHANGED <<admin_req, last>>
    /\ UNCHANGED <<core_unchanged_by_admin, requests, TOKEN_ISSUED_AFTER, JWT_ACCESS_TOKEN_EXPIRES,
                   policy_changed_at, admin_clock, worker2>>

\* line 242, right-hand side: datetime.now(tz=timezone.utc).timestamp()
set_token_expiry_clock(th) ==
    /\ admin_pc[th] = "clock"
    /\ admin_clock' = [admin_clock EXCEPT ![th] = now]
    /\ admin_pc' = [admin_pc EXCEPT ![th] = "store"]
    /\ UNCHANGED <<core_unchanged_by_admin, requests, policy, policy_changed_at, admin_req, last, worker2>>

\* lines 242-245: store the cutoff, answer
set_token_expiry_store(th) ==
    /\ admin_pc[th] = "store"
    /\ TOKEN_ISSUED_AFTER' = admin_clock[th]
    /\ policy_changed_at' = admin_clock[th]
    /\ last' = Req("set_token_expiry", Resp(200, "Token expiry updated and old tokens invalidated"),
                   NoToken, "missing", 0, 0)
    /\ admin_pc' = [admin_pc EXCEPT ![th] = "idle"]
    /\ admin_req' = [admin_req EXCEPT ![th] = NoRequest]
    /\ admin_clock' = [admin_clock EXCEPT ![th] = 0]
    /\ UNCHANGED <<core_unchanged_by_admin, requests, JWT_ACCESS_TOKEN_EXPIRES,
                   JWT_REFRESH_TOKEN_EXPIRES, worker2>>

\* the bodies of the policy changes that race: each field absent, malformed or
\* one valid lifetime
ThreadedBodies ==
    {b \in ExpiryBodies : b.present => /\ b.access_seconds \in {NoneVal, BadVal, IntVal(1)}
                                       /\ b.refresh_seconds \in {NoneVal, BadVal, IntVal(1)}}

NextThreaded ==
    \/ Tick /\ UNCHANGED others
    \/ \E p \in Presentable : protected(p) /\ UNCHANGED others
    \/ \E body \in LoginBodies : login(body) /\ UNCHANGED others
    \/ \E present \in BOOLEAN, p \in Presentable : refresh(present, p) /\ UNCHANGED others
    \/ \E th \in Threads, body \in ThreadedBodies : set_token_expiry_access(th, body) /\ UNCHANGED <<database, restarts, mongo>>
    \/ \E th \in Threads : set_token_expiry_refresh(th) /\ UNCHANGED <<database, restarts, mongo>>
    \/ \E th \in Threads : set_token_expiry_clock(th) /\ UNCHANGED <<database, restarts, mongo>>
    \/ \E th \in Threads : set_token_expiry_store(th) /\ UNCHANGED <<database, restarts, mongo>>

SpecThreaded == Init /\ [][NextThreaded]_vars

\* ---- a second worker process (gunicorn -w N wsgi:app) -------------------
\* Every worker imports wsgi.py and calls create_app: it has its own
\* token_blacklist and its own TOKEN_ISSUED_AFTER; the signing key comes from
\* the database and is the same, so a token minted by one worker decodes on
\* the other.
w2_check_if_token_revoked(t) ==
    IF t.jti \in w2_token_blacklist THEN TRUE
    ELSE IF t.hasExp /\ t.exp < now THEN TRUE
    ELSE IF t.iat < w2_TOKEN_ISSUED_AFTER THEN TRUE
    ELSE FALSE

w2_jwt_required(p) ==
    IF p.type = "none" THEN Resp(401, "Missing token")
    ELSE IF p.type = "garbage" THEN Resp(422, "Invalid token")
    ELSE IF JwtExpired(p) THEN Resp(401, "Token expired")
    ELSE IF p.type # "access" THEN Resp(422, "Invalid token")
    ELSE IF w2_check_if_token_revoked(p) THEN Resp(401, "Token revoked")
    ELSE Resp(200, "admitted")

w2_Admitted(p) == w2_jwt_required(p).status = 200

\* GET /protected served by the second worker
w2_protected(p) ==
    LET r == w2_jwt_required(p) IN
    /\ handled
    /\ last' = Req("w2_protected", IF r.status = 200 THEN Resp(200, "Hello") ELSE r, p, "missing", 0, 0)
    /\ UNCHANGED <<now, policy, token_blacklist, issued, jtiCount, pyjwt_exp_inclusive,
                   policy_changed_at, threads, worker2>>

\* POST /logout served by the second worker
w2_logout(p) ==
    LET r == w2_jwt_required(p) IN
    /\ handled
    /\ IF r.status = 200
          THEN /\ w2_token_blacklist' = w2_token_blacklist \cup {p.jti}
               /\ last' = Req("w2_logout", Resp(200, "Logged out successfully"), p, "missing", 0, 0)
          ELSE /\ w2_token_blacklist' = w2_token_blacklist
               /\ last' = Req("w2_logout", r, p, "missing", 0, 0)
    /\ UNCHANGED <<now, policy, token_blacklist, issued, jtiCount, pyjwt_exp_inclusive,
                   policy_changed_at, threads, w2_TOKEN_ISSUED_AFTER>>

NextWorkers ==
    \/ Tick /\ UNCHANGED others
    \/ \E p \in Presentable : protected(p) /\ UNCHANGED others
    \/ \E p \in Presentable : logout(p) /\ UNCHANGED others
    \/ \E body \in LoginBodies : login(body) /\ UNCHANGED others
    \/ \E cred \in AdminCreds, body \in ExpiryBodies :
          set_token_expiry(cred, body) /\ UNCHANGED others
    \/ \E p \in Presentable : w2_protected(p) /\ UNCHANGED <<database, restarts, mongo>>
    \/ \E p \in Presentable : w2_logout(p) /\ UNCHANGED <<database, restarts, mongo>>

SpecWorkers == Init /\ [][NextWorkers]_vars

\* ---- properties ---------------------------------------------------------
TokenOf(j) == CHOOSE t \in issued : t.jti = j

\* the token's own expires-at has not been reached (a token without exp never expires)
Unexpired(t) == ~t.hasExp \/ now < t.exp

AccessTokens == {t \in issued : t.type = "access"}
RefreshTokens == {t \in issued : t.type = "refresh"}

\* C1: a well-formed, signed access token is admitted if and only if
\* now < expires-at, its identifier is not revoked and issued-at >= cutoff.
C1_HonoredIff ==
    \A t \in AccessTokens :
        t.hasExp =>
            (Admitted(t) <=> (now < t.exp /\ t.jti \notin token_blacklist /\ t.iat >= TOKEN_ISSUED_AFTER))

\* C2: once a policy change has completed, every access token minted at an
\* earlier instant is refused by protected-route admission, whether or not it
\* has expired or was revoked.
C2_OldTokensRejected ==
    \A t \in AccessTokens :
        (policy_changed_at >= 0 /\ t.mintedAt < policy_changed_at) => ~Admitted(t)

\* C2 witness: /protected has just refused (401) an unexpired, never revoked
\* access token that was minted before the latest policy change.
C2_Witness ==
    /\ last.op = "protected" /\ last.status = 401 /\ last.type = "access"
    /\ policy_changed_at >= 0
    /\ TokenOf(last.jti).mintedAt < policy_changed_at
    /\ Unexpired(TokenOf(last.jti))
    /\ last.jti \notin token_blacklist

\* C3: a refresh token minted before the latest policy change never yields a
\* new access token at /refresh.
C3_OldRefreshRejected ==
    (last.op = "refresh" /\ last.status = 200) =>
        ~(policy_changed_at >= 0 /\ TokenOf(last.jti).mintedAt < policy_changed_at)

\* C4: the access token returned by a successful login is admitted when it is
\* presented at once (at the instant of the login).
C4_LoginThenAdmitted ==
    (last.op = "login" /\ last.status = 200 /\ TokenOf(last.access).mintedAt = now) =>
        /\ Admitted(TokenOf(last.access))
        /\ TokenOf(last.access).sub = valid_user

\* C5: an access token minted at exactly the instant the cutoff was advanced
\* to stays valid (while unexpired and not revoked).
C5_MintedAtCutoffValid ==
    \A t \in AccessTokens :
        (t.mintedAt = TOKEN_ISSUED_AFTER /\ Unexpired(t) /\ t.jti \notin token_blacklist) => Admitted(t)

\* C6: once now >= expires-at (equality included) admission fails, whatever
\* the revoked set and the cutoff are.
C6_ExpiredRejected ==
    \A t \in AccessTokens : (t.hasExp /\ now >= t.exp) => ~Admitted(t)

\* C7: a successful logout leaves the presented token refused from then on
\* (the revoked set never loses an identifier), and it revokes that identifier
\* only: another access token of the same subject that is unexpired and issued
\* at or after the cutoff is still admitted.
C7_State ==
    \A t \in AccessTokens :
        /\ t.jti \in token_blacklist => ~Admitted(t)
        /\ ( /\ t.jti \notin token_blacklist
             /\ \E r \in AccessTokens : r.jti \in token_blacklist /\ r.sub = t.sub
             /\ Unexpired(t)
             /\ t.iat >= TOKEN_ISSUED_AFTER ) => Admitted(t)

C7_LogoutRevokesThatTokenOnly ==
    /\ []C7_State
    /\ [][\A p \in issued : (logout(p) /\ last'.status = 200) => p.jti \in token_blacklist']_vars
    /\ [][token_blacklist \subseteq token_blacklist']_vars

\* C7 witness: an access token was logged out and is refused, and a login
\* made afterwards has just returned an access token of the same subject that
\* protected-route admission accepts.
C7_Witness ==
    /\ last.op = "login" /\ last.status = 200
    /\ Admitted(TokenOf(last.access))
    /\ \E r \in AccessTokens :
        /\ r.jti \in token_blacklist
        /\ r.jti # last.access
        /\ r.sub = TokenOf(last.access).sub
        /\ r.mintedAt <= TokenOf(last.access).mintedAt
        /\ ~Admitted(r)

\* C8: logging out again with a token that was already logged out is answered
\* with the same success (200).
C8_LogoutIdempotent ==
    (last.op = "logout" /\ last.jti \in token_blacklist) => last.status = 200

\* C9: a logout that presents a refresh token (unexpired, issued at or after
\* the cutoff) succeeds and revokes that token's identifier.
C9_LogoutWithRefreshToken ==
    ( /\ last.op = "logout" /\ last.type = "refresh"
      /\ Unexpired(TokenOf(last.jti))
      /\ TokenOf(last.jti).iat >= TOKEN_ISSUED_AFTER ) =>
        (last.status = 200 /\ last.jti \in token_blacklist)

\* C10: a policy-change request without a valid admin credential is answered
\* 403 and leaves both lifetimes and the cutoff as they were.
C10_PolicyChangeGated ==
    [][\A cred \in AdminCreds \ {"valid"}, body \in ExpiryBodies :
          set_token_expiry(cred, body) => (last'.status = 403 /\ UNCHANGED policy)]_vars

\* C11: a policy change that asks for a zero or negative access or refresh
\* lifetime is answered 400 and leaves both lifetimes and the cutoff unchanged.
C11_InvalidPolicyRejected ==
    [][\A cred \in AdminCreds, body \in ExpiryBodies :
          ( /\ body.present
            /\ \/ (body.access_seconds.k = "int" /\ body.access_seconds.v <= 0)
               \/ (body.refresh_seconds.k = "int" /\ body.refresh_seconds.v <= 0)
            /\ set_token_expiry(cred, body) )
          => (last'.status = 400 /\ UNCHANGED policy)]_vars

\* the token is refused for one of: expired, revoked, issued before the cutoff
Stale(t) == ~Unexpired(t) \/ t.jti \in token_blacklist \/ t.iat < TOKEN_ISSUED_AFTER

\* C14: any two tokens refused as expired, revoked or issued before the cutoff
\* get the same status and message, at protected routes and at /refresh.
C14_RejectionsIndistinguishable ==
    /\ \A t1, t2 \in AccessTokens :
          (Stale(t1) /\ Stale(t2) /\ ~Admitted(t1) /\ ~Admitted(t2))
              => jwt_required(t1) = jwt_required(t2)
    /\ \A t1, t2 \in RefreshTokens :
          ( /\ Stale(t1) /\ Stale(t2)
            /\ refresh_response(TRUE, t1).status # 200
            /\ refresh_response(TRUE, t2).status # 200 )
              => refresh_response(TRUE, t1) = refresh_response(TRUE, t2)

\* C15: a login with a wrong username and a login with the right username and
\* a wrong password get the same answer, 401 "Invalid credentials", and no
\* token is minted.
WrongUsername(body) == body.present /\ body.username = "mallory"
WrongPassword(body) == body.present /\ body.username = valid_user /\ body.password = "wrong"

C15_SameAnswerForBadCredentials ==
    [][\A body \in LoginBodies :
          ((WrongUsername(body) \/ WrongPassword(body)) /\ login(body))
          => /\ last'.status = 401
             /\ last'.msg = "Invalid credentials"
             /\ issued' = issued
             /\ jtiCount' = jtiCount]_vars

\* C15 witness: a login was refused for its credentials after tokens had been
\* issued to someone else, and the set of issued tokens is what it was.
C15_Witness ==
    /\ last.op = "login" /\ last.status = 401 /\ last.msg = "Invalid credentials"
    /\ issued # {}
    /\ jtiCount = Cardinality(issued)

\* C16: a successful login returns one access and one refresh token of the
\* submitted subject, each with expires-at = issued-at + the lifetime of its
\* kind in force.
C16_LoginMintsUnderPolicy ==
    (last.op = "login" /\ last.status = 200) =>
        LET a == TokenOf(last.access)
            r == TokenOf(last.refresh)
        IN /\ a.type = "access" /\ r.type = "refresh"
           /\ a.sub = valid_user /\ r.sub = valid_user
           /\ a.hasExp /\ a.exp = a.iat + JWT_ACCESS_TOKEN_EXPIRES * TicksPerSec
           /\ r.hasExp /\ r.exp = r.iat + JWT_REFRESH_TOKEN_EXPIRES * TicksPerSec

\* C17: a successful /refresh adds exactly one token, a new access token of
\* the refresh token's subject; it revokes nothing, keeps the presented
\* refresh token, and that token would be accepted by /refresh again.
C17_RefreshMintsAccessOnly ==
    [][\A p \in Presentable :
          (refresh(TRUE, p) /\ last'.status = 200)
          => /\ p.type = "refresh"
             /\ \E t \in issued' :
                   /\ issued' = issued \cup {t}
                   /\ t \notin issued
                   /\ t.type = "access"
                   /\ t.sub = p.sub
                   /\ t.jti \notin {u.jti : u \in issued}
             /\ token_blacklist' = token_blacklist
             /\ p \in issued'
             /\ (refresh_response(TRUE, p).status = 200)']_vars

\* C17 witness: the same refresh token has been used twice with success: the
\* login's access token and two refreshed ones exist.
C17_Witness ==
    /\ last.op = "refresh" /\ last.status = 200
    /\ Cardinality(RefreshTokens) = 1
    /\ Cardinality(AccessTokens) = 3

\* C18: a signed, unexpired access token presented to /refresh is answered
\* 422 "Token is not a refresh token", which is not the answer an invalid
\* token gets, and nothing is minted.
C18_AccessTokenAtRefresh ==
    [][\A p \in AccessTokens :
          (Unexpired(p) /\ refresh(TRUE, p))
          => /\ last'.status = 422
             /\ last'.msg = "Token is not a refresh token"
             /\ Resp(last'.status, last'.msg) # refresh_response(TRUE, Garbage)
             /\ issued' = issued
             /\ jtiCount' = jtiCount]_vars

\* C18 witness: /refresh has just answered 422 to an unexpired access token.
C18_Witness ==
    /\ last.op = "refresh" /\ last.type = "access" /\ last.status = 422
    /\ Unexpired(TokenOf(last.jti))

\* C19: an unexpired refresh token is refused by protected-route admission,
\* with an answer that differs from the one /refresh gives an unexpired access
\* token.
C19_RefreshTokenAtProtected ==
    \A r \in RefreshTokens : \A a \in AccessTokens :
        (Unexpired(r) /\ Unexpired(a))
            => /\ ~Admitted(r)
               /\ jwt_required(r) # refresh_response(TRUE, a)

\* C19 witness: /protected has just refused an unexpired refresh token while
\* an unexpired access token exists.
C19_Witness ==
    /\ last.op = "protected" /\ last.type = "refresh" /\ last.status = 422
    /\ Unexpired(TokenOf(last.jti))
    /\ \E a \in AccessTokens : Unexpired(a)

\* ---- the business routes: stores, users, super_user ----------------------
\* passwords that satisfy password_regex, and one that does not
StrongPasswords == {"Pass1234", "Word5678"}
WeakPasswords == {"weak"}

\* a password field holds the text itself (POST /users, PUT /users) or the
\* text of a bcrypt hash of it (PUT /super_user/reset_password)
Plain(pw) == [k |-> "plain", v |-> pw]
Bcrypt(pw) == [k |-> "bcrypt", v |-> pw]

\* the absent field of a request body
None == "none"

\* the "users" lists a request may carry
UserLists ==
    {<<>>} \cup {<<e>> : e \in Emails} \cup {<<e, f>> : e \in Emails, f \in Emails}

\* the texts a request may carry as old_password
OldPasswords == {Plain(pw) : pw \in StrongPasswords} \cup {Bcrypt(pw) : pw \in StrongPasswords}

\* the body carries no old_password
NoText == [k |-> "absent", v |-> ""]

Range(seq) == {seq[i] : i \in 1 .. Len(seq)}

\* MongoDB $pull, $addToSet and the positional `users.$` of a $set
Pull(seq, x) == SelectSeq(seq, LAMBDA y : y # x)
AddToSet(seq, x) == IF x \in Range(seq) THEN seq ELSE Append(seq, x)
SetFirst(seq, old, new) ==
    IF old \notin Range(seq) THEN seq
    ELSE LET first == CHOOSE i \in 1 .. Len(seq) :
                          seq[i] = old /\ \A j \in 1 .. (i - 1) : seq[j] # old
         IN [seq EXCEPT ![first] = new]

\* the two collections as one value
Db == [users |-> db_users, stores |-> db_stores]
Answer(status, msg, d) == [status |-> status, msg |-> msg, users |-> d.users, stores |-> d.stores]

\* POST /users
create_user_result(d, email, password) ==
    IF password \notin StrongPasswords THEN Answer(400, "Password must be at least 8 chars", d)
    ELSE IF d.users[email] # NoDoc THEN Answer(409, "User already exists", d)
    ELSE Answer(201, "User created",
                [d EXCEPT !.users[email] = [password |-> Plain(password), stores |-> {}]])

\* PUT /users with the fields email, password, old_password, new_email; the
\* body's fields are checked in that order and nothing is written before all
\* checks have passed
update_user_result(d, email, new_email, password, old_password) ==
    LET existing_user == d.users[email]
        renamed == new_email # None /\ new_email # email
        doc == [existing_user EXCEPT !.password =
                    IF password # None THEN Plain(password) ELSE existing_user.password]
    IN
    IF existing_user = NoDoc THEN Answer(404, "User not found", d)
    ELSE IF password # None /\ old_password = NoText
        THEN Answer(400, "'old_password' is required to update password", d)
    ELSE IF password # None /\ old_password # existing_user.password
        THEN Answer(400, "'old_password' does not match", d)
    ELSE IF password # None /\ password \notin StrongPasswords
        THEN Answer(400, "Password must be at least 8 chars", d)
    ELSE IF renamed /\ d.users[new_email] # NoDoc THEN Answer(409, "User already exists", d)
    ELSE IF password = None /\ ~renamed THEN Answer(200, "No changes detected", d)
    ELSE Answer(200, "User updated",
                [users |-> IF renamed
                              THEN [d.users EXCEPT ![email] = NoDoc, ![new_email] = doc]
                              ELSE [d.users EXCEPT ![email] = doc],
                 stores |-> IF renamed
                               THEN [n \in StoreNames |->
                                        IF d.stores[n] = NoDoc THEN NoDoc
                                        ELSE [d.stores[n] EXCEPT
                                                 !.users = SetFirst(@, email, new_email)]]
                               ELSE d.stores])

\* DELETE /users with force true: each listed user that exists is pulled from
\* every store and deleted
delete_users_result(d, emails) ==
    LET found == {e \in emails : d.users[e] # NoDoc}
        RECURSIVE PullAll(_, _)
        PullAll(seq, es) == IF es = {} THEN seq
                            ELSE LET e == CHOOSE x \in es : TRUE
                                 IN PullAll(Pull(seq, e), es \ {e})
    IN
    IF emails = {} THEN Answer(400, "'emails' must be a non-empty list", d)
    ELSE Answer(200, "Deleted users",
                [users |-> [e \in Emails |-> IF e \in found THEN NoDoc ELSE d.users[e]],
                 stores |-> [n \in StoreNames |->
                                IF d.stores[n] = NoDoc THEN NoDoc
                                ELSE [d.stores[n] EXCEPT !.users = PullAll(@, found)]]])

\* PUT /super_user/reset_password with force true; super_ok is whether the
\* super password matches the hash in the env collection
reset_user_password_result(d, super_ok, email, new_password) ==
    IF ~super_ok THEN Answer(403, "Invalid super_password", d)
    ELSE IF d.users[email] = NoDoc THEN Answer(404, "User not found", d)
    ELSE IF new_password \notin StrongPasswords THEN Answer(400, "Password must be at least 8 chars", d)
    ELSE Answer(200, "Password reset",
                [d EXCEPT !.users[email].password = Bcrypt(new_password)])

\* for each listed user: $addToSet of the store name to the user's stores
SyncStore(users, emails, name) ==
    [e \in Emails |-> IF e \in emails /\ users[e] # NoDoc
                         THEN [users[e] EXCEPT !.stores = @ \cup {name}]
                         ELSE users[e]]

\* POST /stores: the users that exist are stored in the order given, the
\* others are ignored; the store's name is added to each stored user
create_store_result(d, name, users) ==
    LET clean_users == SelectSeq(users, LAMBDA e : d.users[e] # NoDoc) IN
    IF d.stores[name] # NoDoc THEN Answer(409, "Store already exists", d)
    ELSE Answer(201, "Store created",
                [users |-> SyncStore(d.users, Range(clean_users), name),
                 stores |-> [d.stores EXCEPT ![name] = [users |-> clean_users]]])

\* PUT /stores with name and new_name: a rename moves the document and, for
\* each email of the store's users list, replaces the old name by the new one
update_store_result(d, current_name, new_name) ==
    LET existing_store == d.stores[current_name]
        renamed == new_name # None /\ new_name # current_name
    IN
    IF existing_store = NoDoc THEN Answer(404, "Store not found", d)
    ELSE IF renamed /\ d.stores[new_name] # NoDoc THEN Answer(409, "Store already exists", d)
    ELSE IF ~renamed THEN Answer(200, "No changes detected to update", d)
    ELSE Answer(200, "Store updated",
                [users |-> [e \in Emails |->
                               IF e \in Range(existing_store.users) /\ d.users[e] # NoDoc
                                  THEN [d.users[e] EXCEPT !.stores = (@ \ {current_name}) \cup {new_name}]
                                  ELSE d.users[e]],
                 stores |-> [d.stores EXCEPT ![current_name] = NoDoc, ![new_name] = existing_store]])

\* DELETE /stores: the documents are deleted; no user document is written
delete_store_result(d, names, force) ==
    IF ~force THEN Answer(400, "You must confirm deletion with 'force': true", d)
    ELSE IF names = {} THEN Answer(400, "'name' field is required", d)
    ELSE Answer(200, "Deleted stores",
                [d EXCEPT !.stores = [n \in StoreNames |-> IF n \in names THEN NoDoc ELSE d.stores[n]]])

\* POST /stores/users: each listed email that is not in the store's list as
\* read at the start, and belongs to a user, is added on both sides
add_users_to_store_result(d, store_name, user_emails) ==
    LET store == d.stores[store_name]
        added == SelectSeq(user_emails,
                           LAMBDA e : e \notin Range(store.users) /\ d.users[e] # NoDoc)
        RECURSIVE AddAll(_, _)
        AddAll(seq, es) == IF es = <<>> THEN seq ELSE AddAll(AddToSet(seq, Head(es)), Tail(es))
    IN
    IF user_emails = <<>> THEN Answer(400, "'user_email' or 'user_emails' is required", d)
    ELSE IF store = NoDoc THEN Answer(404, "Store not found", d)
    ELSE Answer(200, "Added users",
                [users |-> SyncStore(d.users, Range(added), store_name),
                 stores |-> [d.stores EXCEPT ![store_name].users = AddAll(@, added)]])

\* DELETE /stores/users: each listed email that belongs to a user and is in
\* the store's list as read at the start is pulled on both sides
remove_users_from_store_result(d, store_name, user_emails) ==
    LET store == d.stores[store_name]
        removed == {e \in Range(user_emails) : d.users[e] # NoDoc /\ e \in Range(store.users)}
    IN
    IF user_emails = <<>> THEN Answer(400, "Either 'user_email' or 'user_emails' is required", d)
    ELSE IF store = NoDoc THEN Answer(404, "Store not found", d)
    ELSE Answer(200, "Removed users",
                [users |-> [e \in Emails |->
                               IF e \in removed THEN [d.users[e] EXCEPT !.stores = @ \ {store_name}]
                               ELSE d.users[e]],
                 stores |-> [d.stores EXCEPT ![store_name].users =
                                SelectSeq(@, LAMBDA e : e \notin removed)]])

\* the registered business views
BusinessRoutes ==
    {"get_stores", "create_store", "update_store", "delete_store", "remove_users_from_store",
     "add_users_to_store", "create_user", "get_users", "update_user", "delete_users",
     "reset_user_password"}

\* what a business request never touches
auth_state == <<now, policy, token_blacklist, issued, jtiCount, pyjwt_exp_inclusive,
                policy_changed_at, threads, worker2, restarts, mongo>>

\* @jwt_required() refuses the request: the loader's answer is returned and
\* the view function is not called
jwt_rejects(route, p) ==
    /\ handled
    /\ ~Admitted(p)
    /\ last' = Req(route, jwt_required(p), p, "missing", 0, 0)
    /\ UNCHANGED <<database, auth_state>>

\* the view function has run and answered r
Served(route, p, r) ==
    /\ handled
    /\ db_users' = r.users
    /\ db_stores' = r.stores
    /\ last' = Req(route, Resp(r.status, r.msg), p, "missing", 0, 0)
    /\ UNCHANGED auth_state

get_stores(p) == Admitted(p) /\ Served("get_stores", p, Answer(200, "stores", Db))

get_users(p) == Admitted(p) /\ Served("get_users", p, Answer(200, "users", Db))

create_store(p, name, users) ==
    Admitted(p) /\ Served("create_store", p, create_store_result(Db, name, users))

update_store(p, current_name, new_name) ==
    Admitted(p) /\ Served("update_store", p, update_store_result(Db, current_name, new_name))

\* a DELETE /stores whose view runs whatever the guard says
delete_store_Unguarded(p, names, force) ==
    Served("delete_store", p, delete_store_result(Db, names, force))

delete_store(p, names, force) ==
    Admitted(p) /\ Served("delete_store", p, delete_store_result(Db, names, force))

add_users_to_store(p, store_name, user_emails) ==
    Admitted(p) /\ Served("add_users_to_store", p, add_users_to_store_result(Db, store_name, user_emails))

remove_users_from_store(p, store_name, user_emails) ==
    Admitted(p) /\ Served("remove_users_from_store", p,
                          remove_users_from_store_result(Db, store_name, user_emails))

create_user(p, email, password) ==
    Admitted(p) /\ Served("create_user", p, create_user_result(Db, email, password))

update_user(p, email, new_email, password, old_password) ==
    Admitted(p) /\ Served("update_user", p,
                          update_user_result(Db, email, new_email, password, old_password))

delete_users(p, emails) ==
    Admitted(p) /\ Served("delete_users", p, delete_users_result(Db, emails))

reset_user_password(p, super_ok, email, new_password) ==
    Admitted(p) /\ Served("reset_user_password", p,
                          reset_user_password_result(Db, super_ok, email, new_password))

\* The collections outlive the process: it may start on an empty database or
\* on one that earlier requests filled.
SeededDbs ==
    LET empty == [users |-> [e \in Emails |-> NoDoc], stores |-> [n \in StoreNames |-> NoDoc]]
        one == create_store_result(create_user_result(empty, "A@X.CH", "Pass1234"), "S", <<"A@X.CH">>)
        two == add_users_to_store_result(
                   create_store_result(create_user_result(one, "B@X.CH", "Word5678"), "T", <<"B@X.CH">>),
                   "S", <<"B@X.CH">>)
    IN {[users |-> x.users, stores |-> x.stores] : x \in {empty, two}}

\* no request arrives until the clock has run to the end of the modelled time
Idle ==
    /\ now < MaxTime
    /\ now' = MaxTime
    /\ UNCHANGED <<policy, token_blacklist, issued, jtiCount, requests, last, pyjwt_exp_inclusive,
                   policy_changed_at, database, threads, worker2, restarts, mongo>>

\* the login body of the operator
good_login == [present |-> TRUE, username |-> valid_user, password |-> "right"]

InitBusiness ==
    /\ InitProcess
    /\ \E d \in SeededDbs : db_users = d.users /\ db_stores = d.stores

NextBusiness ==
    \/ Idle
    \/ login(good_login) /\ UNCHANGED others
    \/ \E p \in Presentable : logout(p) /\ UNCHANGED others
    \/ \E route \in BusinessRoutes, p \in Presentable : jwt_rejects(route, p)
    \/ \E p \in Presentable : get_stores(p)
    \/ \E p \in Presentable : get_users(p)
    \/ \E p \in Presentable, name \in StoreNames, users \in UserLists : create_store(p, name, users)
    \/ \E p \in Presentable, name \in StoreNames, new_name \in StoreNames \cup {None} :
          update_store(p, name, new_name)
    \/ \E p \in Presentable, names \in SUBSET StoreNames, force \in BOOLEAN : delete_store(p, names, force)
    \/ \E p \in Presentable, name \in StoreNames, emails \in UserLists : add_users_to_store(p, name, emails)
    \/ \E p \in Presentable, name \in StoreNames, emails \in UserLists :
          remove_users_from_store(p, name, emails)
    \/ \E p \in Presentable, email \in Emails, password \in StrongPasswords \cup WeakPasswords :
          create_user(p, email, password)
    \/ \E p \in Presentable, email \in Emails, new_email \in {"B@X.CH", None},
          password \in {"Word5678", "weak", None},
          old_password \in OldPasswords \cup {NoText} :
          update_user(p, email, new_email, password, old_password)
    \/ \E p \in Presentable, emails \in SUBSET Emails : delete_users(p, emails)
    \/ \E p \in Presentable, super_ok \in BOOLEAN, email \in Emails,
          new_password \in StrongPasswords \cup WeakPasswords :
          reset_user_password(p, super_ok, email, new_password)

SpecBusiness == InitBusiness /\ [][NextBusiness]_vars

\* ---- the process is stopped and started again ---------------------------
\* a restart that keeps the cutoff of the process that ended
restart_KeepsCutoff ==
    /\ now < MaxTime
    /\ now' = now + 1
    /\ TOKEN_ISSUED_AFTER' = TOKEN_ISSUED_AFTER
    /\ JWT_ACCESS_TOKEN_EXPIRES' = 1
    /\ JWT_REFRESH_TOKEN_EXPIRES' = 2
    /\ token_blacklist' = {}
    /\ policy_changed_at' = -1
    /\ process_started_at' = now'
    /\ revoked_before_restart' = revoked_before_restart \cup token_blacklist
    /\ last' = Req("restart", Resp(0, ""), NoToken, "missing", 0, 0)
    /\ UNCHANGED <<issued, jtiCount, requests, pyjwt_exp_inclusive, threads, worker2, database, mongo>>

\* The process ends and a new one runs create_app: the revoked set is empty
\* again, the lifetimes are those of env_data and the cutoff is the clock read
\* by the new process. Tokens already handed out stay with their holders.
\* The new process reads the clock later than the old one served its last
\* request: the interpreter starts and wait_for_mongo pings in between.
restart ==
    /\ now < MaxTime
    /\ now' = now + 1
    /\ TOKEN_ISSUED_AFTER' = now'
    /\ JWT_ACCESS_TOKEN_EXPIRES' = 1
    /\ JWT_REFRESH_TOKEN_EXPIRES' = 2
    /\ token_blacklist' = {}
    /\ policy_changed_at' = -1
    /\ process_started_at' = now'
    /\ revoked_before_restart' = revoked_before_restart \cup token_blacklist
    /\ last' = Req("restart", Resp(0, ""), NoToken, "missing", 0, 0)
    /\ UNCHANGED <<issued, jtiCount, requests, pyjwt_exp_inclusive, threads, worker2, database, mongo>>

\* The credential of a policy change is never read, so the restart runs carry
\* none.
NextRestart ==
    \/ Tick /\ UNCHANGED others
    \/ \E p \in Presentable : logout(p) /\ UNCHANGED others
    \/ \E body \in LoginBodies : login(body) /\ UNCHANGED others
    \/ \E present \in BOOLEAN, p \in Presentable : refresh(present, p) /\ UNCHANGED others
    \/ \E body \in ExpiryBodies : set_token_expiry("missing", body) /\ UNCHANGED others
    \/ restart

SpecRestart == Init /\ [][NextRestart]_vars

\* ---- wsgi.py: wait_for_mongo ---------------------------------------------
\* the largest `retries` argument tried (the module's own call uses 5)
MaxRetries == 5

\* how one connection attempt can end: the ping answers, server selection
\* times out, or the driver raises something else
AttemptOutcomes == {"ok", "timeout", "error"}

\* a loop that makes one attempt more than `retries`
range_next_OneMore(done, retries) == IF done <= retries THEN "attempt" ELSE "raised"

\* `for _ in range(retries)`: another attempt while fewer than `retries` were
\* made, else the statement after the loop, which raises
range_next(done, retries) == IF done < retries THEN "attempt" ELSE "raised"

\* wait_for_mongo(uri, retries) is called
wait_for_mongo(retries) ==
    /\ mongo_pc = "idle"
    /\ mongo_retries' = retries
    /\ mongo_outcomes' = <<>>
    /\ mongo_pc' = range_next(0, retries)

\* the try block: MongoClient(...), ping, return client
wait_for_mongo_attempt(outcome) ==
    /\ mongo_pc = "attempt"
    /\ mongo_outcomes' = Append(mongo_outcomes, outcome)
    /\ mongo_pc' = CASE outcome = "ok" -> "returned"
                     [] outcome = "timeout" -> "sleep"
                     [] OTHER -> "failed"
    /\ UNCHANGED mongo_retries

\* the except block: time.sleep(delay), then the loop goes on
wait_for_mongo_sleep ==
    /\ mongo_pc = "sleep"
    /\ mongo_pc' = range_next(Len(mongo_outcomes), mongo_retries)
    /\ UNCHANGED <<mongo_retries, mongo_outcomes>>

application == <<now, TOKEN_ISSUED_AFTER, JWT_ACCESS_TOKEN_EXPIRES, JWT_REFRESH_TOKEN_EXPIRES,
                 token_blacklist, issued, jtiCount, requests, last, pyjwt_exp_inclusive,
                 policy_changed_at, threads, worker2, database, restarts>>

NextMongo ==
    \/ \E retries \in 0 .. MaxRetries : wait_for_mongo(retries) /\ UNCHANGED application
    \/ \E outcome \in AttemptOutcomes : wait_for_mongo_attempt(outcome) /\ UNCHANGED application
    \/ wait_for_mongo_sleep /\ UNCHANGED application

\* every statement of the call ends: the ping is bounded by
\* serverSelectionTimeoutMS and the sleep by `delay`
SpecMongo == Init /\ [][NextMongo]_vars /\ WF_vars(NextMongo)

\* a policy change is half applied on thread th: a lifetime of the request is
\* already in force while the cutoff is still the old one
HalfApplied(th) ==
    /\ admin_pc[th] # "idle"
    /\ \/ admin_req[th].access_seconds.k = "int"
       \/ (admin_pc[th] # "refresh" /\ admin_req[th].refresh_seconds.k = "int")

\* C12: no login, refresh or admission runs in a state in which a policy
\* change is half applied.
C12_PolicyChangeAtomic ==
    [][( \/ \E body \in LoginBodies : login(body)
         \/ \E present \in BOOLEAN, p \in Presentable : refresh(present, p)
         \/ \E p \in Presentable : protected(p) )
       => \A th \in Threads : ~HalfApplied(th)]_vars

\* C13: the revoked set and the cutoff are the same for every worker, and an
\* access token logged out on either worker, or minted before a policy change
\* made on one worker, is refused by both workers.
C13_SharedAcrossWorkers ==
    /\ token_blacklist = w2_token_blacklist
    /\ TOKEN_ISSUED_AFTER = w2_TOKEN_ISSUED_AFTER
    /\ \A t \in AccessTokens :
          ( \/ t.jti \in token_blacklist \cup w2_token_blacklist
            \/ (policy_changed_at >= 0 /\ t.mintedAt < policy_changed_at) )
          => (~Admitted(t) /\ ~w2_Admitted(t))

\* C20: no step moves the cutoff backward.
C20_CutoffMonotonic ==
    [][TOKEN_ISSUED_AFTER' >= TOKEN_ISSUED_AFTER]_vars

\* the well-formed policy-change bodies that omit at least one lifetime
PartialBodies ==
    {b \in ExpiryBodies : /\ b.present
                          /\ b.access_seconds.k # "bad" /\ b.refresh_seconds.k # "bad"
                          /\ (b.access_seconds.k = "none" \/ b.refresh_seconds.k = "none")}

\* C21: a policy change that supplies one lifetime stores it and keeps the
\* other; one that supplies neither keeps both.
C21_OmittedLifetimeKept ==
    \A body \in PartialBodies :
        LET a == body.access_seconds
            r == body.refresh_seconds
            e == expiry_after(body)
        IN /\ (a.k = "int" /\ r.k = "none") =>
                  (e.access = a.v /\ e.refresh = JWT_REFRESH_TOKEN_EXPIRES)
           /\ (a.k = "none" /\ r.k = "int") =>
                  (e.refresh = r.v /\ e.access = JWT_ACCESS_TOKEN_EXPIRES)
           /\ (a.k = "none" /\ r.k = "none") =>
                  (e.access = JWT_ACCESS_TOKEN_EXPIRES /\ e.refresh = JWT_REFRESH_TOKEN_EXPIRES)

\* C21 witness: an accepted policy change has replaced the access lifetime
\* while the refresh lifetime is still the one of process start.
C21_Witness ==
    /\ last.op = "set_token_expiry" /\ last.status = 200
    /\ JWT_ACCESS_TOKEN_EXPIRES # 1
    /\ JWT_REFRESH_TOKEN_EXPIRES = 2

\* C22: every answered request carries one of the mapped statuses.
C22_OnlyMappedOutcomes ==
    last.op # "start" => last.status \in {200, 400, 401, 403, 422}

\* C23: /refresh answers 200 only to an unexpired, unrevoked refresh token,
\* 401 only to an expired or revoked token or to a request without token, 422
\* only to a wrong-kind or malformed token, and nothing else; the answer to a
\* request without token differs from the expired and revoked answers.
C23_RefreshOutcomes ==
    [][(requests' # requests /\ last'.op = "refresh") =>
          LET type == last'.type
              minted == type \in {"access", "refresh"}
          IN /\ last'.status \in {200, 401, 422}
             /\ last'.status = 200 =>
                   /\ type = "refresh"
                   /\ Unexpired(TokenOf(last'.jti))
                   /\ last'.jti \notin token_blacklist
                   /\ last'.access # 0
             /\ last'.status = 401 =>
                   \/ type = "none"
                   \/ (minted /\ (~Unexpired(TokenOf(last'.jti)) \/ last'.jti \in token_blacklist))
             /\ last'.status = 422 => type \in {"garbage", "access"}
             /\ type = "none" => last'.msg \notin {"Token expired", "Token revoked"}]_vars

\* C24: the revoked set only grows, and only by the identifier presented to a
\* logout; the cutoff is written only by a policy change; login, refresh and
\* admission leave the revoked set, the cutoff and both lifetimes alone.
C24_WritersOfSharedState ==
    [][/\ token_blacklist \subseteq token_blacklist'
       /\ token_blacklist' # token_blacklist =>
             /\ last'.op = "logout"
             /\ token_blacklist' = token_blacklist \cup {last'.jti}
       /\ TOKEN_ISSUED_AFTER' # TOKEN_ISSUED_AFTER => last'.op = "set_token_expiry"
       /\ (requests' # requests /\ last'.op \in {"login", "refresh", "protected"})
             => UNCHANGED <<token_blacklist, policy>>
       /\ (requests' # requests /\ last'.op = "logout") => UNCHANGED policy
       /\ (requests' # requests /\ last'.op = "logout" /\ last'.jti \in token_blacklist)
             => UNCHANGED token_blacklist]_vars

\* C24 witness: a logout has just stored its token's identifier in a process
\* whose cutoff a policy change has moved.
C24_Witness ==
    /\ last.op = "logout" /\ last.status = 200
    /\ last.jti \in token_blacklist
    /\ policy_changed_at >= 0

\* the access token of the login that minted refresh token r has been logged
\* out, and no policy change was made since that login
LoggedOutSession(r) ==
    /\ r.jti - 1 \in token_blacklist
    /\ policy_changed_at < r.mintedAt

\* C29: a logout leaves the refresh token of the same login out of the revoked
\* set; while that refresh token is unexpired, /refresh accepts it, and the
\* access token /refresh mints for it is admitted.
C29_RefreshSurvivesLogout ==
    \A r \in RefreshTokens :
        (LoggedOutSession(r) /\ Unexpired(r)) =>
            /\ r.jti \notin token_blacklist
            /\ refresh_response(TRUE, r).status = 200
            /\ Admitted(Mint(jtiCount + 1, r.sub, "access", JWT_ACCESS_TOKEN_EXPIRES))

\* C28: the cutoff of a process is never earlier than its start, and an access
\* token minted before the running process started, or revoked in a process
\* that has ended, is not admitted.
C28_RestartInvalidatesOldTokens ==
    /\ TOKEN_ISSUED_AFTER >= process_started_at
    /\ policy_changed_at = -1 => TOKEN_ISSUED_AFTER = process_started_at
    /\ \A t \in AccessTokens :
          (t.mintedAt < process_started_at \/ t.jti \in revoked_before_restart) => ~Admitted(t)

\* C28 witness: the process was restarted after a logout; the logged-out token
\* is unexpired and absent from the new process's revoked set.
C28_Witness ==
    /\ last.op = "restart"
    /\ \E t \in AccessTokens :
          /\ t.jti \in revoked_before_restart
          /\ t.jti \notin token_blacklist
          /\ Unexpired(t)

\* the call has ended: it returned, raised 'MongoDB not available', or let
\* another exception through
MongoEnded == mongo_pc \in {"returned", "raised", "failed"}

AllTimeouts(outcomes) == \A i \in 1 .. Len(outcomes) : outcomes[i] = "timeout"

\* C30: wait_for_mongo ends; it makes at most `retries` attempts; it returns
\* at the first attempt whose ping succeeds and makes no attempt after it; it
\* raises 'MongoDB not available' exactly when all `retries` attempts timed out.
C30_WaitForMongoTerminates ==
    /\ [](Len(mongo_outcomes) <= mongo_retries)
    /\ [](mongo_pc = "returned" =>
             /\ mongo_outcomes[Len(mongo_outcomes)] = "ok"
             /\ AllTimeouts(SubSeq(mongo_outcomes, 1, Len(mongo_outcomes) - 1)))
    /\ [](MongoEnded =>
             (mongo_pc = "raised" <=>
                 (Len(mongo_outcomes) = mongo_retries /\ AllTimeouts(mongo_outcomes))))
    /\ [][MongoEnded => UNCHANGED mongo]_vars
    /\ <>MongoEnded

\* C30 witness: the call returned the client at the third attempt, after two
\* timeouts, with attempts to spare.
C30_Witness ==
    /\ mongo_pc = "returned"
    /\ Len(mongo_outcomes) = 3
    /\ mongo_retries > 3

\* ---- business routes behind the guard ------------------------------------
\* C25: a request to a business route whose token the guard does not admit is
\* answered with the guard's rejection and leaves the stores and users
\* collections as they were.
C25_RejectedRequestLeavesCollections ==
    [][(requests' # requests /\ last'.op \in BusinessRoutes) =>
          \A p \in Presentable :
              (p.jti = last'.jti /\ p.type = last'.type /\ ~Admitted(p)) =>
                  /\ UNCHANGED database
                  /\ last'.status = jwt_required(p).status
                  /\ last'.msg = jwt_required(p).msg]_vars

\* a DELETE /stores with a revoked token was refused while the store exists
C25_Witness ==
    /\ last.op = "delete_store"
    /\ last.msg = "Token revoked"
    /\ last.jti \in token_blacklist
    /\ db_stores["S"] # NoDoc

\* C26: a user is in a store's users list exactly when the store's name is in
\* the user's stores list, and both documents exist.
C26_MembershipSynchronized ==
    \A e \in Emails, n \in StoreNames :
        (db_stores[n] # NoDoc /\ e \in Range(db_stores[n].users))
            <=> (db_users[e] # NoDoc /\ n \in db_users[e].stores)

\* C27: for a user whose current password is pw, however it was set, a
\* PUT /users carrying old_password pw changes the password exactly when the
\* new password meets the complexity rule, and one carrying another
\* old_password changes nothing.
C27_PasswordChangeRule ==
    \A e \in Emails, old \in StrongPasswords, new \in StrongPasswords \cup WeakPasswords :
        db_users[e] # NoDoc =>
            LET r == update_user_result(Db, e, None, new, Plain(old)) IN
            (r.msg = "User updated") <=> (old = db_users[e].password.v /\ new \in StrongPasswords)
====
